---- MODULE Spec2Model ----
(***************************************************************************)
(* Model of the libcamera C API shim (libcamera-sys/c_api).                *)
(*                                                                         *)
(* The shim is a layer of extern "C" functions over the libcamera C++      *)
(* library. Most of them forward one call to a libcamera object and hand   *)
(* its result back unchanged; the state those calls act on (the camera's   *)
(* acquisition state, its configuration, its queued requests) lives inside *)
(* libcamera, which is not part of the repository. Such a call is modelled *)
(* as what the shim does: an action whose result is chosen by the library, *)
(* drawn from the outcomes the int return type allows.                     *)
(*                                                                         *)
(* State the shim itself creates is modelled as state: the callback        *)
(* handles connected to Camera::requestCompleted and the callbacks the     *)
(* connected lambdas deliver.                                              *)
(*                                                                         *)
(* The frame buffer allocator functions are declared by the shim but their *)
(* bodies are not among the sources; they are modelled from the            *)
(* specification (section 4.5).                                            *)
(*                                                                         *)
(* The shim's own logic over library containers is modelled in full: the   *)
(* registry lookups by id, the null and exception handling of the control  *)
(* info map accessors, the cursors, the bounds tests of the indexed        *)
(* accessors, the camera list the manager hands out and the camera         *)
(* handles, each a heap-allocated shared_ptr. The containers themselves    *)
(* are finite maps and sequences. Each component has a specification of    *)
(* its own (SpecCamera, SpecAllocator, SpecValue, SpecEnum, SpecRegistry,  *)
(* SpecInfoMap, SpecManager, SpecCursor, SpecIndexed); Spec is their union.*)
(***************************************************************************)
EXTENDS Integers, Sequences, FiniteSets, TLC

\* ---------------------------------------------------------------- bounds
NumStreams == 3
MaxBufferCount == 2
NumRequests == 2
NumData == 2
MaxHandles == 2
MaxCalls == 2
MaxElements == 2
MaxBufLen == 4
MaxId == 4
NumKeys == 3
MaxExtraNexts == 1
NumCameras == 2
MaxLists == 1
MaxCameraHandles == 2
MaxSize == 2

Streams == 1..NumStreams
Requests == 1..NumRequests
Data == 1..NumData
Handles == 1..MaxHandles

\* ---------------------------------------------------------------- results
\* The int a forwarded call returns: 0 is "Ok", a negative errno is one of the
\* error kinds. The library chooses it; the shim passes it on.
PipelineErrors == {"Busy", "InvalidConfiguration", "InvalidRequest", "PipelineError"}
PipelineRet == {"Ok"} \cup PipelineErrors

\* libcamera_camera_configuration_status_t
ConfigurationStatus == {"Valid", "Adjusted", "Invalid"}

VARIABLES
    lastCall,   \* the last shim call that returned a status: op, arg, ret; tick flips on every call
    slots,      \* slots connected to Camera::requestCompleted, in connection order
    calls,      \* the callbacks delivered so far: <<data, request>> in delivery order
    pools,      \* the allocator's pools: allocated stream -> its buffers
    value,      \* one ControlValue: type, isArray, numElements and the bytes of data()
    lastSet,    \* the last libcamera_control_value_set call: its arguments and what it read
    tags,       \* per header version: the last enumerator of libcamera_control_type used and its tag
    lookup,     \* the last name, type and ControlId lookups by id: table, id and what came back
    infoMap,    \* the ControlInfoMap the caller holds: null, or its keys and their ControlInfo
    query,      \* the last at, count, size and find on infoMap: key and what came back
    cursor,     \* one cursor: its kind, the container it walks, its position, what it has passed
    cameras,    \* the camera manager's cameras, in the order of its vector
    lists,      \* the camera lists the caller holds: list -> its vector of cameras
    heap,       \* the live camera handles: address -> the camera its shared_ptr owns
    held,       \* per address, the handles the caller was given and has not destroyed
    indexed     \* the last indexed accessor call: container, index and what came back

valueVars == <<value, lastSet>>

shimVars == <<lastCall, slots, calls, pools, value, lastSet>>

registryVars == <<tags, lookup>>

infoMapVars == <<infoMap, query>>

managerVars == <<cameras, lists, heap, held>>

containerVars == <<tags, lookup, infoMap, query, cursor, cameras, lists, heap, held, indexed>>

vars == <<lastCall, slots, calls, pools, value, lastSet,
          tags, lookup, infoMap, query, cursor, cameras, lists, heap, held, indexed>>

\* ------------------------------------------------------- control values
\* enum libcamera_control_type; the model draws one type of each size up to two bytes.
ControlTypes == {"NONE", "BYTE", "UINT16"}

\* sizeOf(type): the bytes of one element (none, uint8_t, uint16_t).
ControlValueSize(type) ==
    CASE type = "NONE" -> 0
      [] type = "BYTE" -> 1
      [] type = "UINT16" -> 2

Bytes == {0, 1}

\* The buffers a caller may hand to set: any bytes, any length up to MaxBufLen.
Buffers == UNION {[1..len -> Bytes] : len \in 0..MaxBufLen}

\* new libcamera::ControlValue(): type None, no element, no data
EmptyValue == [type |-> "NONE", isArray |-> FALSE, numElements |-> 0, bytes |-> <<>>]

NoSet == [api |-> "none", type |-> "NONE", is_array |-> FALSE, n |-> 0, buf |-> <<>>,
          ret |-> "void", oob |-> FALSE]

\* ------------------------------------------------------------- pointers
\* nullptr, and a pointer to x
Null == [null |-> TRUE]

Ptr(x) == [null |-> FALSE, at |-> x]

\* ------------------------------------------------ what no call has set yet
NoTag == [name |-> "none", tag |-> 0]

NoLookup == [name |-> [table |-> "none", id |-> 0, ret |-> Null],
             type |-> [table |-> "none", id |-> 0, ret |-> "NONE"],
             from |-> [table |-> "none", id |-> 0, ret |-> Null]]

NoQuery == [at    |-> [asked |-> FALSE, key |-> 0, ret |-> Null],
            count |-> [asked |-> FALSE, key |-> 0, ret |-> 0],
            size  |-> [asked |-> FALSE, ret |-> 0],
            find  |-> [asked |-> FALSE, key |-> 0, ret |-> Null]]

NoCursor == [kind |-> "none", container |-> <<>>, it |-> 1, end |-> 1, passed |-> <<>>, nexts |-> 0]

NoIndexed == [fn |-> "none", container |-> <<>>, after |-> <<>>, index |-> 0, ret |-> Null]

\* The header versions of enum libcamera_control_type: the nine-type header and
\* the twelve-type header.
Headers == {"part_002", "controls.h"}

CameraHandles == 1..MaxCameraHandles

Returned(op, arg, ret) ==
    lastCall' = [op |-> op, arg |-> arg, ret |-> ret, tick |-> 1 - lastCall.tick]

\* A step is a call of op exactly when tick flips and the recorded op is op.
IsCall(op) == lastCall'.tick # lastCall.tick /\ lastCall'.op = op

Init ==
    /\ lastCall = [op |-> "none", arg |-> 0, ret |-> "Ok", tick |-> 0]
    /\ slots = <<>>
    /\ calls = <<>>
    /\ pools = <<>>
    /\ value = EmptyValue
    /\ lastSet = NoSet
    /\ tags = [header \in Headers |-> NoTag]
    /\ lookup = NoLookup
    /\ infoMap = Null
    /\ query = NoQuery
    /\ cursor = NoCursor
    /\ cameras = <<>>
    /\ lists = <<>>
    /\ heap = <<>>
    /\ held = [a \in CameraHandles |-> 0]
    /\ indexed = NoIndexed

\* ------------------------------------------------- camera: forwarded calls
\* return cam->get()->op(...): the library decides, the shim adds no guard and
\* keeps no state of its own.
Forward(op, rets) ==
    /\ \E ret \in rets : Returned(op, 0, ret)
    /\ UNCHANGED <<slots, calls, pools, valueVars, containerVars>>

libcamera_camera_configuration_validate == Forward("configuration_validate", ConfigurationStatus)

libcamera_camera_acquire == Forward("acquire", PipelineRet)

libcamera_camera_release == Forward("release", PipelineRet)

libcamera_camera_configure == Forward("configure", PipelineRet)

libcamera_camera_queue_request == Forward("queue_request", PipelineRet)

libcamera_camera_start == Forward("start", PipelineRet)

libcamera_camera_stop == Forward("stop", PipelineRet)

\* return cam->get()->createRequest(cookie).release(): the library's Request or null
libcamera_camera_create_request == Forward("create_request", {"Request", "Null"})

\* libcamera_request_status_t
RequestStatus == {"Pending", "Complete", "Cancelled"}

\* return request->status()
libcamera_request_status == Forward("request_status", RequestStatus)

\* return request->reuse(flags): nothing comes back
libcamera_request_reuse == Forward("request_reuse", {"void"})

\* return request->addBuffer(stream, buffer)
libcamera_request_add_buffer == Forward("request_add_buffer", PipelineRet)

\* list->set(id, *val): nothing comes back, whether or not the list took the value
libcamera_control_list_set == Forward("control_list_set", {"void"})

\* list->contains(id) ? &list->get(id) : nullptr
libcamera_control_list_get ==
    \E contains \in BOOLEAN :
        Forward("control_list_get", IF contains THEN {"Value"} ELSE {"Null"})

\* --------------------------------------------- camera: requestCompleted
SlotHandles == {slots[i].handle : i \in 1..Len(slots)}

\* new handle; requestCompleted.connect(handle, [=](Request *r) { callback(data, r); })
libcamera_camera_request_completed_connect ==
    /\ \E h \in Handles \ SlotHandles, d \in Data :
         slots' = Append(slots, [handle |-> h, data |-> d])
    /\ UNCHANGED <<lastCall, calls, pools, valueVars, containerVars>>

\* requestCompleted.disconnect(handle); delete handle
libcamera_camera_request_completed_disconnect ==
    /\ \E h \in SlotHandles :
         slots' = SelectSeq(slots, LAMBDA s : s.handle # h)
    /\ UNCHANGED <<lastCall, calls, pools, valueVars, containerVars>>

\* The library emits requestCompleted(request): every connected lambda runs, in
\* connection order, and calls callback(data, request).
Delivered(request) == [i \in 1..Len(slots) |-> <<slots[i].data, request>>]

requestCompleted ==
    /\ Len(calls) + Len(slots) <= MaxCalls
    /\ \E r \in Requests : calls' = calls \o Delivered(r)
    /\ UNCHANGED <<lastCall, slots, pools, valueVars, containerVars>>

\* ------------------------------------------------------ buffer allocator
Allocated == DOMAIN pools

\* buffers(stream): the pool of an allocated stream, empty otherwise
libcamera_framebuffer_allocator_buffers(stream) ==
    IF stream \in Allocated THEN pools[stream] ELSE <<>>

NewPool(stream, bufferCount) == [i \in 1..bufferCount |-> <<stream, i>>]

\* allocate(stream): bufferCount buffers for a stream that has none; fails with
\* AlreadyAllocated for a stream that has a pool, NoMemory when out of resources.
libcamera_framebuffer_allocator_allocate_unchecked(stream) ==
    /\ \E bufferCount \in 1..MaxBufferCount :
         \/ /\ pools' = [s \in Allocated \cup {stream} |->
                           IF s = stream THEN NewPool(stream, bufferCount) ELSE pools[s]]
            /\ Returned("allocator_allocate", stream, "Ok")
         \/ /\ pools' = pools
            /\ Returned("allocator_allocate", stream, "NoMemory")
    /\ UNCHANGED <<slots, calls, valueVars, containerVars>>

libcamera_framebuffer_allocator_allocate(stream) ==
    /\ IF stream \in Allocated
       THEN /\ pools' = pools
            /\ Returned("allocator_allocate", stream, "AlreadyAllocated")
       ELSE \E bufferCount \in 1..MaxBufferCount :
              \/ /\ pools' = [s \in Allocated \cup {stream} |->
                                IF s = stream THEN NewPool(stream, bufferCount) ELSE pools[s]]
                 /\ Returned("allocator_allocate", stream, "Ok")
              \/ /\ pools' = pools
                 /\ Returned("allocator_allocate", stream, "NoMemory")
    /\ UNCHANGED <<slots, calls, valueVars, containerVars>>

\* free(stream): releases the pool of an allocated stream
libcamera_framebuffer_allocator_free(stream) ==
    /\ IF stream \in Allocated
       THEN /\ pools' = [s \in Allocated \ {stream} |-> pools[s]]
            /\ Returned("allocator_free", stream, "Ok")
       ELSE /\ pools' = pools
            /\ Returned("allocator_free", stream, "NotAllocated")
    /\ UNCHANGED <<slots, calls, valueVars, containerVars>>

\* ------------------------------------------------------- control values
\* ControlValue::reserve(type, isArray, numElements): the value takes the type and
\* the array flag it is given and storage for numElements elements. The count is
\* fixed where the flag agrees with it; a scalar reserve of a count other than one
\* keeps that count or a single element, at the library's choice.
reserve(type, isArray, numElements) ==
    {[type |-> type, isArray |-> isArray, numElements |-> m] :
        m \in IF isArray \/ numElements = 1 THEN {numElements} ELSE {numElements, 1}}

\* memcpy(storage.data(), data, size): size bytes are read from the caller's
\* buffer; those past its end are whatever the read finds there.
memcpy(buf, size) ==
    {b \in [1..size -> Bytes] : \A i \in 1..size : i <= Len(buf) => b[i] = buf[i]}

\* val->reserve(type, isArray, num_elements); storage = val->data();
\* memcpy(storage.data(), data, storage.size()). Nothing is returned.
SetValue(api, type, buf, is_array, isArray, num_elements) ==
    /\ \E r \in reserve(type, isArray, num_elements) :
         LET size == r.numElements * ControlValueSize(r.type) IN
         \E b \in memcpy(buf, size) :
            /\ value' = [type |-> r.type, isArray |-> r.isArray,
                         numElements |-> r.numElements, bytes |-> b]
            /\ lastSet' = [api |-> api, type |-> type, is_array |-> is_array,
                           n |-> num_elements, buf |-> buf, ret |-> "void",
                           oob |-> (Len(buf) < size)]
    /\ UNCHANGED <<lastCall, slots, calls, pools, containerVars>>

libcamera_control_value_create ==
    /\ value' = EmptyValue
    /\ lastSet' = [NoSet EXCEPT !.api = "create"]
    /\ UNCHANGED <<lastCall, slots, calls, pools, containerVars>>

\* set(val, type, data, num_elements): the array flag is num_elements != 1
libcamera_control_value_set4_gt1(type, buf, num_elements) ==
    SetValue("set4", type, buf, num_elements # 1, num_elements > 1, num_elements)

libcamera_control_value_set4(type, buf, num_elements) ==
    SetValue("set4", type, buf, num_elements # 1, num_elements # 1, num_elements)

\* set(val, type, data, is_array, num_elements): the array flag is the caller's
libcamera_control_value_set(type, buf, is_array, num_elements) ==
    SetValue("set5", type, buf, is_array, is_array, num_elements)

libcamera_control_value_type == value.type

libcamera_control_value_is_none == value.type = "NONE"

libcamera_control_value_is_array == value.isArray

libcamera_control_value_num_elements == value.numElements

\* the bytes behind the pointer data().data()
libcamera_control_value_get == value.bytes

ValueSet4 ==
    \E type \in ControlTypes, buf \in Buffers, n \in 0..MaxElements :
        libcamera_control_value_set4(type, buf, n)

ValueSet ==
    \E type \in ControlTypes, buf \in Buffers, is_array \in BOOLEAN, n \in 0..MaxElements :
        libcamera_control_value_set(type, buf, is_array, n)

\* ---------------------------------------------- enum libcamera_control_type
\* The enumerators of enum libcamera_control_type in declaration order, for each
\* header version; an enumerator's tag is its position, counted from zero. The
\* variant lists the nine earlier enumerators first and the later ones after them.
enum_libcamera_control_type_appended(header) ==
    CASE header = "part_002" ->
           <<"NONE", "BOOL", "BYTE", "INT32", "INT64", "FLOAT", "STRING", "RECTANGLE", "SIZE">>
      [] header = "controls.h" ->
           <<"NONE", "BOOL", "BYTE", "INT32", "INT64", "FLOAT", "STRING", "RECTANGLE", "SIZE",
             "UINT16", "UINT32", "POINT">>

enum_libcamera_control_type(header) ==
    CASE header = "part_002" ->
           <<"NONE", "BOOL", "BYTE", "INT32", "INT64", "FLOAT", "STRING", "RECTANGLE", "SIZE">>
      [] header = "controls.h" ->
           <<"NONE", "BOOL", "BYTE", "UINT16", "UINT32", "INT32", "INT64", "FLOAT", "STRING",
             "RECTANGLE", "SIZE", "POINT">>

Enumerators(header) ==
    {enum_libcamera_control_type(header)[i] : i \in 1..Len(enum_libcamera_control_type(header))}

Tag(header, name) ==
    (CHOOSE i \in 1..Len(enum_libcamera_control_type(header)) :
        enum_libcamera_control_type(header)[i] = name) - 1

\* A build against header uses LIBCAMERA_CONTROL_TYPE_<name>: it gets the tag that
\* header gives the enumerator.
LIBCAMERA_CONTROL_TYPE(header, name) ==
    /\ tags' = [tags EXCEPT ![header] = [name |-> name, tag |-> Tag(header, name)]]
    /\ UNCHANGED <<shimVars, lookup, infoMapVars, cursor, managerVars, indexed>>

ControlTypeTag ==
    \E header \in Headers :
        \E name \in Enumerators(header) : LIBCAMERA_CONTROL_TYPE(header, name)

\* ------------------------------------------------------- control registry
\* libcamera::controls::controls and libcamera::properties::properties: id -> ControlId.
\* The first three ids of each generated enumeration, with the name and the type
\* the library declares for them.
controls ==
    [id \in 1..3 |->
        CASE id = 1 -> [name |-> "AeEnable", type |-> "BOOL"]
          [] id = 2 -> [name |-> "AeLocked", type |-> "BOOL"]
          [] id = 3 -> [name |-> "AeMeteringMode", type |-> "INT32"]]

properties ==
    [id \in 1..3 |->
        CASE id = 1 -> [name |-> "Location", type |-> "INT32"]
          [] id = 2 -> [name |-> "Rotation", type |-> "INT32"]
          [] id = 3 -> [name |-> "Model", type |-> "STRING"]]

Tables == {"controls", "properties"}

Table(table) == IF table = "controls" THEN controls ELSE properties

\* The ids a caller may pass: those of the tables and others.
Ids == 0..MaxId

\* it = table.find(id); it != table.end() ? it->second->name().c_str() : ""
name_by_id_empty(table, id) ==
    /\ lookup' = [lookup EXCEPT !.name =
                     [table |-> table, id |-> id,
                      ret |-> IF id \in DOMAIN Table(table)
                              THEN Ptr(Table(table)[id].name) ELSE Ptr("")]]
    /\ UNCHANGED <<shimVars, tags, infoMapVars, cursor, managerVars, indexed>>

\* it = table.find(id); it != table.end() ? it->second->name().c_str() : nullptr
name_by_id(table, id) ==
    /\ lookup' = [lookup EXCEPT !.name =
                     [table |-> table, id |-> id,
                      ret |-> IF id \in DOMAIN Table(table)
                              THEN Ptr(Table(table)[id].name) ELSE Null]]
    /\ UNCHANGED <<shimVars, tags, infoMapVars, cursor, managerVars, indexed>>

\* it = table.find(id); it != table.end() ? it->second->type() : LIBCAMERA_CONTROL_TYPE_NONE
type_by_id(table, id) ==
    /\ lookup' = [lookup EXCEPT !.type =
                     [table |-> table, id |-> id,
                      ret |-> IF id \in DOMAIN Table(table)
                              THEN Table(table)[id].type ELSE "NONE"]]
    /\ UNCHANGED <<shimVars, tags, infoMapVars, cursor, managerVars, indexed>>

libcamera_control_name(id) == name_by_id("controls", id)

libcamera_control_type(id) == type_by_id("controls", id)

libcamera_property_name(id) == name_by_id("properties", id)

libcamera_property_type(id) == type_by_id("properties", id)

\* it = controls.find(id); it != controls.end() ? it->second : nullptr
libcamera_control_from_id(id) ==
    /\ lookup' = [lookup EXCEPT !.from =
                     [table |-> "controls", id |-> id,
                      ret |-> IF id \in DOMAIN controls THEN Ptr(controls[id]) ELSE Null]]
    /\ UNCHANGED <<shimVars, tags, infoMapVars, cursor, managerVars, indexed>>

ControlName == \E id \in Ids : libcamera_control_name(id)

ControlType == \E id \in Ids : libcamera_control_type(id)

PropertyName == \E id \in Ids : libcamera_property_name(id)

PropertyType == \E id \in Ids : libcamera_property_type(id)

ControlFromId == \E id \in Ids : libcamera_control_from_id(id)

\* ------------------------------------------------------- control info map
Keys == 1..NumKeys

\* The ControlInfo the map holds under key.
ControlInfo(key) == <<"ControlInfo", key>>

\* The maps a camera may hand out: any set of keys, one ControlInfo under each.
InfoMaps == {[key \in K |-> ControlInfo(key)] : K \in SUBSET Keys}

\* What map->at(key) leaves in place of a reference when it throws.
out_of_range == [null |-> FALSE, thrown |-> "std::out_of_range"]

\* ControlInfoMap::at, count, size and find, with end() as Null
at(map, key) == IF key \in DOMAIN map THEN Ptr(map[key]) ELSE out_of_range

count(map, key) == IF key \in DOMAIN map THEN 1 ELSE 0

size(map) == Cardinality(DOMAIN map)

find(map, key) == IF key \in DOMAIN map THEN Ptr(map[key]) ELSE Null

\* if (!map) return nullptr; return &map->at(key);
libcamera_control_info_map_at_uncaught(map, key) ==
    IF map = Null THEN Null ELSE at(map.at, key)

\* if (!map) return nullptr; try { return &map->at(key); } catch (out_of_range) { return nullptr; }
libcamera_control_info_map_at(map, key) ==
    IF map = Null THEN Null
    ELSE IF at(map.at, key) = out_of_range THEN Null ELSE at(map.at, key)

\* if (!map) return 0; return map->count(key);
libcamera_control_info_map_count(map, key) ==
    IF map = Null THEN 0 ELSE count(map.at, key)

\* if (!map) return 0; return map->size();
libcamera_control_info_map_size(map) ==
    IF map = Null THEN 0 ELSE size(map.at)

\* if (!map) return nullptr; it = map->find(key); it != map->end() ? &it->second : nullptr
libcamera_control_info_map_find(map, key) ==
    IF map = Null THEN Null ELSE find(map.at, key)

\* return &cam->get()->controls(): the camera's map, whatever it holds
libcamera_camera_controls ==
    /\ \E map \in InfoMaps : infoMap' = Ptr(map)
    /\ query' = NoQuery
    /\ UNCHANGED <<shimVars, registryVars, cursor, managerVars, indexed>>

InfoMapAt ==
    /\ \E key \in Keys :
         query' = [query EXCEPT !.at = [asked |-> TRUE, key |-> key,
                                        ret |-> libcamera_control_info_map_at(infoMap, key)]]
    /\ UNCHANGED <<shimVars, registryVars, infoMap, cursor, managerVars, indexed>>

InfoMapCount ==
    /\ \E key \in Keys :
         query' = [query EXCEPT !.count = [asked |-> TRUE, key |-> key,
                                           ret |-> libcamera_control_info_map_count(infoMap, key)]]
    /\ UNCHANGED <<shimVars, registryVars, infoMap, cursor, managerVars, indexed>>

InfoMapSize ==
    /\ query' = [query EXCEPT !.size = [asked |-> TRUE,
                                        ret |-> libcamera_control_info_map_size(infoMap)]]
    /\ UNCHANGED <<shimVars, registryVars, infoMap, cursor, managerVars, indexed>>

InfoMapFind ==
    /\ \E key \in Keys :
         query' = [query EXCEPT !.find = [asked |-> TRUE, key |-> key,
                                          ret |-> libcamera_control_info_map_find(infoMap, key)]]
    /\ UNCHANGED <<shimVars, registryVars, infoMap, cursor, managerVars, indexed>>

\* --------------------------------------- camera manager, lists and handles
Cams == 1..NumCameras

Lists == 1..MaxLists

\* std::vector::at(index), indices from zero; a throw past the end
vector_at(vector, index) ==
    IF index < Len(vector) THEN vector[index + 1] ELSE out_of_range

InVector(vector, cam) == \E i \in 1..Len(vector) : vector[i] = cam

\* Hot-plug: the library appends a camera to the manager's vector, or removes one.
\* Cameras are numbered in the order they can appear: one is appended only after
\* those numbered below it.
cameraAdded ==
    /\ \E cam \in Cams :
         /\ \A i \in 1..Len(cameras) : cameras[i] < cam
         /\ cameras' = Append(cameras, cam)
    /\ UNCHANGED <<shimVars, registryVars, infoMapVars, cursor, lists, heap, held, indexed>>

cameraRemoved ==
    /\ \E cam \in Cams :
         /\ InVector(cameras, cam)
         /\ cameras' = SelectSeq(cameras, LAMBDA c : c # cam)
    /\ UNCHANGED <<shimVars, registryVars, infoMapVars, cursor, lists, heap, held, indexed>>

\* return new libcamera_camera_list_t(): a list that holds nothing of the manager's
libcamera_camera_manager_cameras_empty ==
    /\ \E list \in Lists \ DOMAIN lists :
         lists' = [l \in DOMAIN lists \cup {list} |-> IF l = list THEN <<>> ELSE lists[l]]
    /\ UNCHANGED <<shimVars, registryVars, infoMapVars, cursor, cameras, heap, held, indexed>>

\* return new libcamera_camera_list_t(std::move(mgr->cameras())): a vector of its
\* own, holding the cameras the manager has now
libcamera_camera_manager_cameras ==
    /\ \E list \in Lists \ DOMAIN lists :
         lists' = [l \in DOMAIN lists \cup {list} |-> IF l = list THEN cameras ELSE lists[l]]
    /\ UNCHANGED <<shimVars, registryVars, infoMapVars, cursor, cameras, heap, held, indexed>>

\* delete list
libcamera_camera_list_destroy ==
    /\ \E list \in DOMAIN lists :
         lists' = [l \in DOMAIN lists \ {list} |-> lists[l]]
    /\ UNCHANGED <<shimVars, registryVars, infoMapVars, cursor, cameras, heap, held, indexed>>

\* return list->size()
libcamera_camera_list_size(list) == Len(list)

\* new libcamera_camera_t(camera): a shared_ptr of its own at a fresh address,
\* handed to the caller
NewHandle(cam) ==
    \E a \in CameraHandles \ DOMAIN heap :
        /\ heap' = [h \in DOMAIN heap \cup {a} |-> IF h = a THEN cam ELSE heap[h]]
        /\ held' = [held EXCEPT ![a] = @ + 1]

\* if (list->size() <= index) return nullptr; else return new libcamera_camera_t(list->at(index));
libcamera_camera_list_get(list, index) ==
    IF libcamera_camera_list_size(list) <= index
    THEN UNCHANGED <<heap, held>>
    ELSE NewHandle(vector_at(list, index))

\* camera = mgr->get(id); camera == nullptr ? NULL : new libcamera_camera_t(camera)
libcamera_camera_manager_get_id(id) ==
    IF ~InVector(cameras, id)
    THEN UNCHANGED <<heap, held>>
    ELSE NewHandle(id)

RECURSIVE Sum(_, _)
Sum(f, S) == IF S = {} THEN 0 ELSE LET x == CHOOSE y \in S : TRUE IN f[x] + Sum(f, S \ {x})

\* The handles the caller holds.
Held == Sum(held, CameraHandles)

\* return cam: the caller gets the address it passed
libcamera_camera_copy_alias(cam) ==
    /\ held[cam] > 0
    /\ Held < MaxCameraHandles
    /\ heap' = heap
    /\ held' = [held EXCEPT ![cam] = @ + 1]

\* const libcamera_camera_t& ptr = *cam; return new libcamera_camera_t(ptr);
libcamera_camera_copy(cam) ==
    /\ held[cam] > 0
    /\ cam \in DOMAIN heap
    /\ NewHandle(heap[cam])

\* delete cam
libcamera_camera_destroy(cam) ==
    /\ held[cam] > 0
    /\ heap' = [h \in DOMAIN heap \ {cam} |-> heap[h]]
    /\ held' = [held EXCEPT ![cam] = @ - 1]

\* The shared_ptrs that own cam: the manager's while the camera is plugged, one per
\* list entry, one per live handle.
use_count(cam) ==
    Cardinality({i \in 1..Len(cameras) : cameras[i] = cam})
    + Cardinality({<<l, i>> \in Lists \X (1..NumCameras) :
                      l \in DOMAIN lists /\ i <= Len(lists[l]) /\ lists[l][i] = cam})
    + Cardinality({h \in DOMAIN heap : heap[h] = cam})

\* The Camera object exists while a shared_ptr owns it.
Valid(cam) == use_count(cam) > 0

CameraListGet ==
    /\ \E list \in DOMAIN lists, index \in 0..NumCameras :
         libcamera_camera_list_get(lists[list], index)
    /\ UNCHANGED <<shimVars, registryVars, infoMapVars, cursor, cameras, lists, indexed>>

CameraManagerGetId ==
    /\ \E id \in Cams : libcamera_camera_manager_get_id(id)
    /\ UNCHANGED <<shimVars, registryVars, infoMapVars, cursor, cameras, lists, indexed>>

CameraCopy ==
    /\ \E cam \in CameraHandles : libcamera_camera_copy(cam)
    /\ UNCHANGED <<shimVars, registryVars, infoMapVars, cursor, cameras, lists, indexed>>

CameraDestroy ==
    /\ \E cam \in CameraHandles : libcamera_camera_destroy(cam)
    /\ UNCHANGED <<shimVars, registryVars, infoMapVars, cursor, cameras, lists, indexed>>

\* ----------------------------------------------------------------- cursors
\* The entries of a control list, a request buffer map or a control info map in
\* the order its iterator walks them: each key once.
Orders ==
    {order \in UNION {[1..n -> Keys] : n \in 0..NumKeys} :
        \A i \in 1..Len(order), j \in 1..Len(order) : i # j => order[i] # order[j]}

\* list->end(), buffer_map->end(): one past the last entry
End(container) == Len(container) + 1

\* new libcamera_control_list_iter_t { list, list->begin() }
\* new libcamera_request_buffer_map_iter_t { buffer_map, buffer_map->begin() }
iter(kind, container) ==
    /\ cursor' = [kind |-> kind, container |-> container, it |-> 1, end |-> 0,
                  passed |-> <<>>, nexts |-> 0]
    /\ UNCHANGED <<shimVars, registryVars, infoMapVars, managerVars, indexed>>

libcamera_control_list_iter == \E list \in Orders : iter("control_list", list)

libcamera_request_buffer_map_iter == \E buffer_map \in Orders : iter("buffer_map", buffer_map)

\* iter->current = map->begin(); iter->end = map->end();
libcamera_control_info_map_iter_create ==
    /\ \E map \in Orders :
         cursor' = [kind |-> "info_map", container |-> map, it |-> 1, end |-> End(map),
                    passed |-> <<>>, nexts |-> 0]
    /\ UNCHANGED <<shimVars, registryVars, infoMapVars, managerVars, indexed>>

\* return iter->it == iter->list->end()
libcamera_control_list_iter_end == cursor.it = End(cursor.container)

libcamera_request_buffer_map_iter_end == cursor.it = End(cursor.container)

\* return iter->current != iter->end
libcamera_control_info_map_iter_has_next == cursor.it # cursor.end

\* The entry under the cursor, once it has moved on: what id()/value(),
\* stream()/buffer(), key()/value() gave the caller there.
Passed(it) ==
    IF it <= Len(cursor.container) THEN Append(cursor.passed, cursor.container[it])
    ELSE cursor.passed

\* ++(iter->it)
iter_next_unchecked(kind) ==
    /\ cursor.kind = kind
    /\ cursor.nexts < Len(cursor.container) + MaxExtraNexts
    /\ cursor' = [cursor EXCEPT !.it = @ + 1, !.passed = Passed(cursor.it), !.nexts = @ + 1]
    /\ UNCHANGED <<shimVars, registryVars, infoMapVars, managerVars, indexed>>

\* if (iter->it != iter->list->end()) ++(iter->it)
iter_next(kind) ==
    /\ cursor.kind = kind
    /\ cursor.nexts < Len(cursor.container) + MaxExtraNexts
    /\ IF cursor.it # End(cursor.container)
       THEN cursor' = [cursor EXCEPT !.it = @ + 1, !.passed = Passed(cursor.it), !.nexts = @ + 1]
       ELSE cursor' = [cursor EXCEPT !.nexts = @ + 1]
    /\ UNCHANGED <<shimVars, registryVars, infoMapVars, managerVars, indexed>>

libcamera_control_list_iter_next == iter_next("control_list")

libcamera_request_buffer_map_iter_next == iter_next("buffer_map")

\* if (!iter || iter->current == iter->end) return; ++(iter->current)
libcamera_control_info_map_iter_next ==
    /\ cursor.kind = "info_map"
    /\ cursor.nexts < Len(cursor.container) + MaxExtraNexts
    /\ IF cursor.it = cursor.end
       THEN cursor' = [cursor EXCEPT !.nexts = @ + 1]
       ELSE cursor' = [cursor EXCEPT !.it = @ + 1, !.passed = Passed(cursor.it), !.nexts = @ + 1]
    /\ UNCHANGED <<shimVars, registryVars, infoMapVars, managerVars, indexed>>

\* What the cursor reports as the end of the pass.
AtEnd ==
    CASE cursor.kind = "control_list" -> libcamera_control_list_iter_end
      [] cursor.kind = "buffer_map" -> libcamera_request_buffer_map_iter_end
      [] cursor.kind = "info_map" -> ~libcamera_control_info_map_iter_has_next
      [] OTHER -> TRUE

\* ------------------------------------------------------- indexed accessors
\* A CameraConfiguration of n stream configurations, a vector of n pixel formats.
Configuration(n) == [i \in 1..n |-> <<"StreamConfiguration", i - 1>>]

PixelFormats(n) == [i \in 1..n |-> <<"PixelFormat", i - 1>>]

\* The vectors cameras() can return.
CameraVectors ==
    {v \in UNION {[1..n -> Cams] : n \in 0..NumCameras} :
        \A i \in 1..Len(v), j \in 1..Len(v) : i < j => v[i] < v[j]}

\* if (config->size() >= index) return &config->at(index); else return nullptr;
libcamera_camera_configuration_at_ge(config, index) ==
    IF Len(config) >= index THEN Ptr(vector_at(config, index)) ELSE Null

\* if (config->size() > index) return &config->at(index); else return nullptr;
libcamera_camera_configuration_at(config, index) ==
    IF Len(config) > index THEN Ptr(vector_at(config, index)) ELSE Null

\* if (formats->size() <= index) return nullptr; else return &(*formats)[index];
libcamera_pixel_formats_get(formats, index) ==
    IF Len(formats) <= index THEN Null ELSE Ptr(formats[index + 1])

CameraConfigurationAt ==
    /\ \E n \in 0..MaxSize, index \in 0..(MaxSize + 1) :
         indexed' = [fn |-> "camera_configuration_at", container |-> Configuration(n),
                     after |-> Configuration(n), index |-> index,
                     ret |-> libcamera_camera_configuration_at(Configuration(n), index)]
    /\ UNCHANGED <<shimVars, registryVars, infoMapVars, cursor, managerVars>>

PixelFormatsGet ==
    /\ \E n \in 0..MaxSize, index \in 0..(MaxSize + 1) :
         indexed' = [fn |-> "pixel_formats_get", container |-> PixelFormats(n),
                     after |-> PixelFormats(n), index |-> index,
                     ret |-> libcamera_pixel_formats_get(PixelFormats(n), index)]
    /\ UNCHANGED <<shimVars, registryVars, infoMapVars, cursor, managerVars>>

\* libcamera_camera_list_get on any list: the handle it returns is the one new on
\* the heap, null when there is none.
IndexedCameraListGet ==
    /\ \E list \in CameraVectors, index \in 0..(NumCameras + 1) :
         /\ libcamera_camera_list_get(list, index)
         /\ indexed' = [fn |-> "camera_list_get", container |-> list, after |-> list,
                        index |-> index,
                        ret |-> IF DOMAIN heap' = DOMAIN heap THEN Null
                                ELSE Ptr(heap'[CHOOSE a \in DOMAIN heap' \ DOMAIN heap : TRUE])]
    /\ UNCHANGED <<shimVars, registryVars, infoMapVars, cursor, cameras, lists>>

\* ---------------------------------------------------------- specifications
AllocatorAllocate == \E stream \in Streams : libcamera_framebuffer_allocator_allocate(stream)

AllocatorFree == \E stream \in Streams : libcamera_framebuffer_allocator_free(stream)

NextCamera ==
    \/ libcamera_camera_configuration_validate
    \/ libcamera_camera_acquire
    \/ libcamera_camera_release
    \/ libcamera_camera_configure
    \/ libcamera_camera_queue_request
    \/ libcamera_camera_start
    \/ libcamera_camera_stop
    \/ libcamera_camera_create_request
    \/ libcamera_request_status
    \/ libcamera_request_reuse
    \/ libcamera_request_add_buffer
    \/ libcamera_control_list_set
    \/ libcamera_control_list_get
    \/ libcamera_camera_request_completed_connect
    \/ libcamera_camera_request_completed_disconnect
    \/ requestCompleted

NextAllocator ==
    \/ AllocatorAllocate
    \/ AllocatorFree

NextValue ==
    \/ libcamera_control_value_create
    \/ ValueSet4
    \/ ValueSet

NextEnum ==
    \/ ControlTypeTag

NextRegistry ==
    \/ ControlName
    \/ ControlType
    \/ PropertyName
    \/ PropertyType
    \/ ControlFromId

NextInfoMap ==
    \/ libcamera_camera_controls
    \/ InfoMapAt
    \/ InfoMapCount
    \/ InfoMapSize
    \/ InfoMapFind

NextManager ==
    \/ cameraAdded
    \/ cameraRemoved
    \/ libcamera_camera_manager_cameras
    \/ libcamera_camera_list_destroy
    \/ CameraListGet
    \/ CameraManagerGetId
    \/ CameraCopy
    \/ CameraDestroy

NextCursor ==
    \/ libcamera_control_list_iter
    \/ libcamera_control_list_iter_next
    \/ libcamera_request_buffer_map_iter
    \/ libcamera_request_buffer_map_iter_next
    \/ libcamera_control_info_map_iter_create
    \/ libcamera_control_info_map_iter_next

NextIndexed ==
    \/ CameraConfigurationAt
    \/ PixelFormatsGet
    \/ IndexedCameraListGet
    \/ CameraDestroy

Next ==
    \/ NextCamera
    \/ NextAllocator
    \/ NextValue
    \/ NextEnum
    \/ NextRegistry
    \/ NextInfoMap
    \/ NextManager
    \/ NextCursor
    \/ NextIndexed

Spec == Init /\ [][Next]_vars

SpecCamera == Init /\ [][NextCamera]_vars

SpecAllocator == Init /\ [][NextAllocator]_vars

SpecValue == Init /\ [][NextValue]_vars

SpecEnum == Init /\ [][NextEnum]_vars

SpecRegistry == Init /\ [][NextRegistry]_vars

SpecInfoMap == Init /\ [][NextInfoMap]_vars

SpecManager == Init /\ [][NextManager]_vars

SpecCursor == Init /\ [][NextCursor]_vars

SpecIndexed == Init /\ [][NextIndexed]_vars

\* ------------------------------------------------------------------ claims

\* C7: allocate(stream) for a stream that already has a pool (no free(stream)
\* since the allocate that made it) fails with AlreadyAllocated and leaves every
\* pool as it was: same buffers, same count.
C7_SecondAllocateFails ==
    [][\A stream \in Streams :
         (IsCall("allocator_allocate") /\ lastCall'.arg = stream /\ stream \in Allocated)
            => /\ lastCall'.ret = "AlreadyAllocated"
               /\ pools' = pools
               /\ libcamera_framebuffer_allocator_buffers(stream)' = libcamera_framebuffer_allocator_buffers(stream)]_vars

\* A second allocate has failed on a stream that holds a full pool, while another
\* stream holds a pool too.
C7_Witness ==
    /\ lastCall.op = "allocator_allocate"
    /\ lastCall.ret = "AlreadyAllocated"
    /\ lastCall.arg \in Allocated
    /\ Len(pools[lastCall.arg]) = MaxBufferCount
    /\ Cardinality(Allocated) >= 2

WasSet == lastSet.api \in {"set4", "set5"}

\* C12 (as claimed): a set whose caller buffer is not exactly
\* elementCount * sizeOf(type) bytes long is rejected with InvalidArgument, so no
\* set ever reads past the end of the caller's buffer.
C12_SetNeverReadsPastBuffer ==
    WasSet => /\ ~lastSet.oob
              /\ Len(lastSet.buf) < Len(libcamera_control_value_get) => lastSet.ret = "InvalidArgument"

\* C14 (as claimed): after a set, isArray() is (elementCount != 1): one element is
\* a scalar, zero or several elements are an array.
C14_IsArrayIffCountNotOne ==
    WasSet => libcamera_control_value_is_array = (lastSet.n # 1)

\* C14 (amended): after the four-argument set, isArray() is (elementCount != 1) and
\* numElements() is elementCount; after the five-argument set, isArray() is the
\* is_array argument, and numElements() is elementCount whenever is_array is true
\* or elementCount is one.
C14_IsArrayIsTheFlagPassed ==
    /\ lastSet.api = "set4" =>
          /\ libcamera_control_value_is_array = (lastSet.n # 1)
          /\ libcamera_control_value_num_elements = lastSet.n
    /\ lastSet.api = "set5" =>
          /\ libcamera_control_value_is_array = lastSet.is_array
          /\ (lastSet.is_array \/ lastSet.n = 1) =>
                libcamera_control_value_num_elements = lastSet.n

\* The five-argument set has stored one element as an array.
C14_Witness ==
    /\ lastSet.api = "set5"
    /\ lastSet.is_array
    /\ lastSet.n = 1
    /\ libcamera_control_value_is_array
    /\ libcamera_control_value_num_elements = 1

\* C22 (as claimed): an enumerator of enum libcamera_control_type has the same tag
\* in every header version that declares it.
C22_SameTagInEveryVersion ==
    \A h1 \in Headers, h2 \in Headers :
        (tags[h1].name # "none" /\ tags[h1].name = tags[h2].name) => tags[h1].tag = tags[h2].tag

\* C22 (amended): NONE, BOOL and BYTE are 0, 1 and 2 in every header version; the
\* twelve-type header declares UINT16 and UINT32 as 3 and 4, before INT32, so INT32,
\* INT64, FLOAT, STRING, RECTANGLE and SIZE are 3..8 in the nine-type header and
\* 5..10 in the twelve-type header, where POINT is 11.
C22_TagsShiftByTwoFromInt32 ==
    /\ \A h \in Headers :
          /\ tags[h].name = "NONE" => tags[h].tag = 0
          /\ tags[h].name = "BOOL" => tags[h].tag = 1
          /\ tags[h].name = "BYTE" => tags[h].tag = 2
    /\ tags["controls.h"].name = "UINT16" => tags["controls.h"].tag = 3
    /\ tags["controls.h"].name = "UINT32" => tags["controls.h"].tag = 4
    /\ tags["controls.h"].name = "POINT" => tags["controls.h"].tag = 11
    /\ \A h \in Headers :
          tags[h].name \in {"INT32", "INT64", "FLOAT", "STRING", "RECTANGLE", "SIZE"} =>
             /\ tags[h].tag \in (IF h = "part_002" THEN 3..8 ELSE 5..10)
             /\ tags["part_002"].name = tags["controls.h"].name =>
                   tags["controls.h"].tag = tags["part_002"].tag + 2

\* Both headers have been asked for INT32: 3 in one, 5 in the other.
C22_Witness ==
    /\ tags["part_002"] = [name |-> "INT32", tag |-> 3]
    /\ tags["controls.h"] = [name |-> "INT32", tag |-> 5]

\* C23: a name lookup returns the name the table holds for a present id and null
\* for an absent one; a type lookup returns the declared type of a present id and
\* NONE for an absent one; the name is null exactly when the id is not in the table.
C23_LookupsNeverFailHard ==
    /\ lookup.name.table \in Tables =>
          LET table == Table(lookup.name.table)
              id == lookup.name.id
          IN /\ id \in DOMAIN table => lookup.name.ret = Ptr(table[id].name)
             /\ id \notin DOMAIN table => lookup.name.ret = Null
             /\ (lookup.name.ret = Null) <=> (id \notin DOMAIN table)
    /\ lookup.type.table \in Tables =>
          LET table == Table(lookup.type.table)
              id == lookup.type.id
          IN /\ id \in DOMAIN table => lookup.type.ret = table[id].type
             /\ id \notin DOMAIN table => lookup.type.ret = "NONE"
    /\ (lookup.name.table \in Tables /\ lookup.name.table = lookup.type.table
          /\ lookup.name.id = lookup.type.id) =>
             ((lookup.name.ret = Null) <=> (lookup.type.ret = "NONE"))
    /\ lookup.from.table \in Tables =>
          ((lookup.from.ret = Null) <=> (lookup.from.id \notin DOMAIN controls))

\* The same absent property id has been looked up by name and by type, and a
\* present control id has been looked up too.
C23_Witness ==
    /\ lookup.name = [table |-> "properties", id |-> MaxId, ret |-> Null]
    /\ lookup.type = [table |-> "properties", id |-> MaxId, ret |-> "NONE"]
    /\ lookup.from = [table |-> "controls", id |-> 3, ret |-> Ptr(controls[3])]

\* C24: for a control info map and every key, count is 0 or 1; at returns null
\* exactly when count is 0; find returns an entry exactly when count is 1, the
\* entry at returns; size is the number of keys whose count is 1; a null map gives
\* count 0, size 0 and null from at and find. Every answer given since the map was
\* obtained is the one the map gives now.
C24_AtCountFindSizeAgree ==
    /\ \A key \in Keys :
          /\ libcamera_control_info_map_count(infoMap, key) \in {0, 1}
          /\ (libcamera_control_info_map_at(infoMap, key) = Null)
                <=> (libcamera_control_info_map_count(infoMap, key) = 0)
          /\ (libcamera_control_info_map_find(infoMap, key) # Null)
                <=> (libcamera_control_info_map_count(infoMap, key) = 1)
          /\ libcamera_control_info_map_count(infoMap, key) = 1 =>
                /\ libcamera_control_info_map_find(infoMap, key) = Ptr(ControlInfo(key))
                /\ libcamera_control_info_map_at(infoMap, key) = libcamera_control_info_map_find(infoMap, key)
          /\ infoMap = Null =>
                /\ libcamera_control_info_map_count(infoMap, key) = 0
                /\ libcamera_control_info_map_at(infoMap, key) = Null
                /\ libcamera_control_info_map_find(infoMap, key) = Null
    /\ libcamera_control_info_map_size(infoMap)
          = Cardinality({key \in Keys : libcamera_control_info_map_count(infoMap, key) = 1})
    /\ infoMap = Null => libcamera_control_info_map_size(infoMap) = 0
    /\ query.at.asked => query.at.ret = libcamera_control_info_map_at(infoMap, query.at.key)
    /\ query.count.asked => query.count.ret = libcamera_control_info_map_count(infoMap, query.count.key)
    /\ query.find.asked => query.find.ret = libcamera_control_info_map_find(infoMap, query.find.key)
    /\ query.size.asked => query.size.ret = libcamera_control_info_map_size(infoMap)
    /\ (query.at.asked /\ query.count.asked /\ query.at.key = query.count.key) =>
          ((query.at.ret = Null) <=> (query.count.ret = 0))
    /\ (query.find.asked /\ query.at.asked /\ query.find.key = query.at.key) =>
          query.find.ret = query.at.ret

\* A map that holds some keys and lacks the one asked for: at and find have
\* returned null for it, count 0, and size the number of keys held.
C24_Witness ==
    /\ infoMap # Null
    /\ query.at = [asked |-> TRUE, key |-> NumKeys, ret |-> Null]
    /\ query.count = [asked |-> TRUE, key |-> NumKeys, ret |-> 0]
    /\ query.find = [asked |-> TRUE, key |-> NumKeys, ret |-> Null]
    /\ query.size = [asked |-> TRUE, ret |-> NumKeys - 1]

\* C25: a camera list is a snapshot. A list the caller holds keeps its size and the
\* camera at each index across every step, hot-plug included; a list that
\* cameras() creates holds the cameras the manager has at that call.
C25_ListIsASnapshot ==
    [][/\ \A list \in DOMAIN lists \cap DOMAIN lists' :
             /\ libcamera_camera_list_size(lists'[list]) = libcamera_camera_list_size(lists[list])
             /\ \A index \in 0..NumCameras :
                   vector_at(lists'[list], index) = vector_at(lists[list], index)
       /\ \A list \in DOMAIN lists' \ DOMAIN lists :
             /\ lists'[list] = cameras
             /\ cameras' = cameras]_vars

\* The caller holds a list of one camera while the manager has come to hold two.
C25_Witness ==
    /\ 1 \in DOMAIN lists
    /\ Len(lists[1]) = 1
    /\ Len(cameras) = 2
    /\ cameras[1] # lists[1][1]

\* C28: every handle the caller holds is a live shared_ptr of its own whose Camera
\* is valid; a step creates one handle, destroys one handle or leaves the handles
\* alone, and never touches a handle other than the one created or destroyed.
C28_HandlesAreReferenceCounted ==
    /\ [](/\ \A a \in CameraHandles :
               /\ held[a] > 0 => (a \in DOMAIN heap /\ Valid(heap[a]))
               /\ held[a] <= 1
          /\ Cardinality(DOMAIN heap) = Held)
    /\ [][/\ Held' \in {Held - 1, Held, Held + 1}
          /\ Cardinality(DOMAIN heap') = Cardinality(DOMAIN heap) + (Held' - Held)
          /\ \A a \in DOMAIN heap \cap DOMAIN heap' : heap'[a] = heap[a]
          /\ \A a \in CameraHandles :
                (held[a] > 0 /\ held'[a] > 0) => (a \in DOMAIN heap' /\ Valid(heap[a])')]_vars

\* After a copy and the destroy of the first handle, the camera has left the
\* manager and no list holds it: the one handle left keeps it valid.
C28_Witness ==
    /\ DOMAIN heap = {2}
    /\ held[2] = 1
    /\ held[1] = 0
    /\ ~InVector(cameras, heap[2])
    /\ DOMAIN lists = {}
    /\ use_count(heap[2]) = 1

\* C26: a cursor over a container that does not change has passed, each once and
\* in the container's order, exactly the entries before its position; it reports
\* end exactly when next has been called size() times or more, at once for an empty
\* container; and next at end leaves it at end.
C26_CursorPassesEachEntryOnce ==
    cursor.kind # "none" =>
        /\ cursor.it \in 1..End(cursor.container)
        /\ cursor.passed = SubSeq(cursor.container, 1, cursor.it - 1)
        /\ AtEnd <=> cursor.nexts >= Len(cursor.container)
        /\ AtEnd => cursor.passed = cursor.container
        /\ ~AtEnd => cursor.nexts = cursor.it - 1

\* A cursor over a full control info map has been moved past every entry and
\* then moved again at end.
C26_Witness ==
    /\ cursor.kind = "info_map"
    /\ Len(cursor.container) = NumKeys
    /\ cursor.nexts = NumKeys + MaxExtraNexts
    /\ AtEnd
    /\ cursor.passed = cursor.container

\* C27: an indexed accessor returns the element at index exactly when index is
\* below the container's size, and null for every other index, an empty container
\* included; the container is as it was.
C27_IndexedAccessorsAreTotal ==
    indexed.fn # "none" =>
        /\ indexed.index < Len(indexed.container) =>
              indexed.ret = Ptr(indexed.container[indexed.index + 1])
        /\ indexed.index >= Len(indexed.container) => indexed.ret = Null
        /\ indexed.after = indexed.container

\* The configuration accessor has been asked for the element one past the last
\* of a full configuration and has returned null.
C27_Witness ==
    /\ indexed.fn = "camera_configuration_at"
    /\ Len(indexed.container) = MaxSize
    /\ indexed.index = MaxSize
    /\ indexed.ret = Null

====
